---- MODULE Spec2Model ----
(***************************************************************************)
(* Konto: accounts (Account.py), funds (Fund.py) and pools (Pools.py).     *)
(*                                                                         *)
(* An object is a record holding the attributes the Python object holds.   *)
(* A pandas frame is a sequence of rows plus the set of its column names;  *)
(* a cell the frame holds no value for is NaN.  A timestamp is a day       *)
(* number.  The index value of a row is <<"date", d>> for a timestamp and  *)
(* <<"pos", n>> for a position of the default index: the two kinds never   *)
(* compare equal.  A dictionary is a function from its keys to tag lists;  *)
(* a key of tagdict_on_price is a bare reference <<r>> (the only kind a    *)
(* JSON file can hold) or a pair <<r, v>>.  A file holds at least one row, *)
(* its amounts already numbers.                                            *)
(*                                                                         *)
(* objs holds the accounts and funds, pool the pool built from them (NaN   *)
(* before there is one), last what the last call did.                      *)
(***************************************************************************)
EXTENDS Integers, Sequences, FiniteSets, TLC

VARIABLES objs, pool, last

vars == <<objs, pool, last>>

-----------------------------------------------------------------------------
(* Bounds of the model. *)

\* Rows of the file an account is constructed from.
MaxRows == 2
\* Rows of a file handed to endow.
MaxNewRows == 1
\* Tokens of one line typed at a prompt.
MaxTagLen == 2
\* Days a validity window may start or end on: 1..MaxDay.
MaxDay == 4

Refs == {"A", "B"}
Amounts == {-1, 2}
FileDays == {1, 3}
Tags == {"x", "y"}
Frequencies == {"D", "W"}
OpeningBalances == {10}
WindowDays == 1..MaxDay

RECURSIVE SeqsUpTo(_, _)
SeqsUpTo(S, n) ==
    IF n = 0 THEN {<<>>}
    ELSE LET shorter == SeqsUpTo(S, n - 1)
         IN  shorter \cup {Append(s, e) : s \in shorter, e \in S}

\* What input().split() can return.
TagLists == SeqsUpTo(Tags, MaxTagLen)

FileRows == [Date : FileDays, Reference : Refs, Value : Amounts]
FilesUpTo(n) == SeqsUpTo(FileRows, n) \ {<<>>}

-----------------------------------------------------------------------------
(* Values. *)

NaN == <<>>
Cell(v) == <<v>>
CellValue(c) == c[1]

\* set(tlist)
ToSet(tlist) == {tlist[i] : i \in 1..Len(tlist)}

RECURSIVE SumSeq(_)
SumSeq(s) == IF s = <<>> THEN 0 ELSE Head(s) + SumSeq(Tail(s))

\* DataFrame['Value'].sum()
ValueSum(data) == SumSeq([i \in 1..Len(data) |-> data[i].Value])

\* The timestamp of a row: the index a constructed row is keyed by, the 'Date'
\* column of a row read by endow.
Timestamp(row) == IF row.index[1] = "date" THEN row.index[2] ELSE CellValue(row.Date)

BareKey(ref) == <<ref>>
PairKey(ref, value) == <<ref, value>>
EmptyDict == <<>>
DictSet(d, k, v) == [x \in DOMAIN d \cup {k} |-> IF x = k THEN v ELSE d[x]]

NoException == "none"
\* What a call did: the exception it raised if any, the prompts it issued in order,
\* and what it returned or appended.  args is filled in by the action that calls.
Outcome(op, exc, prompts, result) ==
    [op |-> op, args |-> <<>>, exc |-> exc, prompts |-> prompts, result |-> result]

-----------------------------------------------------------------------------
(* account.__init__ *)

ConstructedRow(r) ==
    [index |-> <<"date", r.Date>>, Date |-> NaN, Reference |-> r.Reference,
     Value |-> r.Value, Tags |-> NaN]

account(file, from_date, to_date, val_at_open) ==
    LET data == [i \in 1..Len(file) |-> ConstructedRow(file[i])]
    IN  [class |-> "account",
         from_date |-> from_date,
         to_date |-> to_date,
         data |-> data,
         columns |-> {"Reference", "Value"},
         sort_data |-> [i \in 1..Len(data) |->
                          [index |-> data[i].index, Reference |-> data[i].Reference,
                           Value |-> data[i].Value]],
         tagdict |-> EmptyDict,
         tagdict_on_price |-> EmptyDict,
         data_tagged |-> FALSE,
         val_at_open |-> val_at_open,
         value |-> val_at_open + ValueSum(data)]

-----------------------------------------------------------------------------
(* account.tag *)

\* An argument of tag: None, or a dictionary.
NoneArg == [kind |-> "none"]
DictArg(d) == [kind |-> "dict", d |-> d]

Prompt(path, row) == [path |-> path, Reference |-> row.Reference, Value |-> row.Value]

\* Whether the first branch of the loop body is taken: row[0] in self.tagdict_on_price.
OnPriceBranch(tagdict_on_price, row) == BareKey(row.Reference) \in DOMAIN tagdict_on_price

\* One pass of the loop body on row, st being the loop's state and answer the line
\* typed if the row prompts.  The store of an answer under (reference, amount) names
\* tagdict_on_price with no self: the name is not defined and the statement raises.
TagRow(st, row, answer) ==
    IF st.exc # NoException THEN st
    ELSE IF OnPriceBranch(st.tagdict_on_price, row)
    THEN IF PairKey(row.Reference, row.Value) \in DOMAIN st.tagdict_on_price
         THEN [st EXCEPT !.tagcolumn =
                  Append(@, st.tagdict_on_price[PairKey(row.Reference, row.Value)])]
         ELSE [st EXCEPT !.prompts = Append(@, Prompt("on_price", row)),
                         !.exc = "NameError"]
    ELSE IF row.Reference \in DOMAIN st.tagdict
         THEN [st EXCEPT !.tagcolumn = Append(@, st.tagdict[row.Reference])]
         ELSE [st EXCEPT !.prompts = Append(@, Prompt("plain", row)),
                         !.tagdict = DictSet(@, row.Reference, answer),
                         !.tagcolumn = Append(@, answer)]

RECURSIVE TagLoop(_, _, _, _)
TagLoop(st, rows, answers, i) ==
    IF i > Len(rows) THEN st
    ELSE TagLoop(TagRow(st, rows[i], answers[i]), rows, answers, i + 1)

\* self.data['Tags'] = tagcolumn
SetTagsColumn(data, tagcolumn) ==
    [i \in 1..Len(data) |-> [data[i] EXCEPT !.Tags = Cell(tagcolumn[i])]]

\* The account after tag(tagging_dict, tagging_dict_on_price) and what the call did.
\* data_tagged is set before the column is assigned, and the assignment raises when
\* the column is not as long as the frame (sort_data is the frame as constructed).
tag(a, tagging_dict, tagging_dict_on_price, answers) ==
    LET td == IF tagging_dict.kind = "none" THEN a.tagdict ELSE tagging_dict.d
        tdp == IF tagging_dict_on_price.kind = "none" THEN a.tagdict_on_price
               ELSE tagging_dict_on_price.d
        st0 == [tagdict |-> td, tagdict_on_price |-> tdp, tagcolumn |-> <<>>,
                prompts |-> <<>>, exc |-> NoException]
        st == TagLoop(st0, a.sort_data, answers, 1)
        a1 == [a EXCEPT !.tagdict = st.tagdict, !.tagdict_on_price = st.tagdict_on_price]
    IN  IF st.exc # NoException
        THEN [acc |-> a1, out |-> Outcome("tag", st.exc, st.prompts, <<>>)]
        ELSE IF Len(st.tagcolumn) # Len(a.data)
        THEN [acc |-> [a1 EXCEPT !.data_tagged = TRUE],
              out |-> Outcome("tag", "ValueError", st.prompts, <<>>)]
        ELSE [acc |-> [a1 EXCEPT !.data_tagged = TRUE,
                                 !.data = SetTagsColumn(a.data, st.tagcolumn),
                                 !.columns = @ \cup {"Tags"}],
              out |-> Outcome("tag", NoException, st.prompts, st.tagcolumn)]

-----------------------------------------------------------------------------
(* account.import_tags, account.import_value_tags *)

\* json.load of a file holding an object: its keys are strings.
import_tags(a, json) == [a EXCEPT !.tagdict = json]

import_value_tags(a, json) ==
    [a EXCEPT !.tagdict_on_price = [k \in {BareKey(r) : r \in DOMAIN json} |-> json[k[1]]]]

-----------------------------------------------------------------------------
(* account.endow *)

\* A row of pd.read_csv(file, ...): the frame keeps its default index, the row's
\* position, and holds the parsed date in its 'Date' column.
ReadRow(file, i) ==
    [index |-> <<"pos", i - 1>>, Date |-> Cell(file[i].Date),
     Reference |-> file[i].Reference, Value |-> file[i].Value, Tags |-> NaN]

IndexValues(data) == {data[i].index : i \in 1..Len(data)}

\* [date not in self.data.index.values for date in new_data.index.values]
NotInIndex(data, new_row) == new_row.index \notin IndexValues(data)

WindowRejectedUnlessAbutting(a, new_from_date, new_to_date) ==
    new_from_date > a.to_date + 1 \/ new_to_date < a.from_date - 1

\* Whether endow raises on the window: the two comparisons before the file is read.
WindowRejected(a, new_from_date, new_to_date) ==
    new_from_date > a.to_date \/ new_to_date < a.from_date

endow(a, file, new_from_date, new_to_date) ==
    IF WindowRejected(a, new_from_date, new_to_date)
    THEN [acc |-> a, out |-> Outcome("endow", "ValueError", <<>>, <<>>)]
    ELSE LET new_data == [i \in 1..Len(file) |-> ReadRow(file, i)]
             kept == SelectSeq(new_data, LAMBDA r : NotInIndex(a.data, r))
         IN  [acc |-> [a EXCEPT !.data = a.data \o kept,
                                !.columns = @ \cup {"Date"}],
              out |-> Outcome("endow", NoException, <<>>, kept)]

-----------------------------------------------------------------------------
(* resample, tagresample (account and konto share the text) *)

\* The bucket of a day: a day for 'D', a week (seven days) for 'W'.
DaysIn(frequency) == IF frequency = "D" THEN 1 ELSE 7
Bucket(frequency, day) == (day - 1) \div DaysIn(frequency)

SetMin(S) == CHOOSE x \in S : \A y \in S : x <= y
SetMax(S) == CHOOSE x \in S : \A y \in S : x >= y

\* frame.resample(frequency)['Value'].sum(): one total for every bucket from the
\* first row's to the last row's, in order, empty ones included.
ResampleSum(rows, frequency) ==
    IF rows = <<>> THEN <<>>
    ELSE LET bs == {Bucket(frequency, Timestamp(rows[i])) : i \in 1..Len(rows)}
             lo == SetMin(bs)
             InBucket(b) == SelectSeq(rows, LAMBDA r : Bucket(frequency, Timestamp(r)) = b)
         IN  [k \in 1..(SetMax(bs) - lo + 1) |->
                 [bucket |-> lo + k - 1, total |-> ValueSum(InBucket(lo + k - 1))]]

\* frame.resample needs every index value to be a timestamp.
DatetimeIndex(data) == \A i \in 1..Len(data) : data[i].index[1] = "date"

\* set(list_of_tags).issubset(set(tlist))
HasTags(list_of_tags, row) == ToSet(list_of_tags) \subseteq ToSet(CellValue(row.Tags))

\* The guard of tagresample: elif not(self.data_tagged).
NotTaggedGuard(o) == ~o.data_tagged

resample(o, frequency) ==
    IF ~DatetimeIndex(o.data)
    THEN Outcome("resample", "TypeError", <<>>, <<>>)
    ELSE Outcome("resample", NoException, <<>>, ResampleSum(o.data, frequency))

\* The raise of the guard names TagError, which nothing defines: what is raised
\* there is a NameError.  Past the guard the frame is read: no 'Tags' column is a
\* KeyError, set(NaN) a TypeError, an index that is not all timestamps a TypeError.
tagresample(o, list_of_tags, frequency) ==
    IF NotTaggedGuard(o)
    THEN Outcome("tagresample", "NameError", <<>>, <<>>)
    ELSE IF "Tags" \notin o.columns
    THEN Outcome("tagresample", "KeyError", <<>>, <<>>)
    ELSE IF \E i \in 1..Len(o.data) : o.data[i].Tags = NaN
    THEN Outcome("tagresample", "TypeError", <<>>, <<>>)
    ELSE IF ~DatetimeIndex(o.data)
    THEN Outcome("tagresample", "TypeError", <<>>, <<>>)
    ELSE Outcome("tagresample", NoException, <<>>,
                 ResampleSum(SelectSeq(o.data, LAMBDA r : HasTags(list_of_tags, r)),
                             frequency))

-----------------------------------------------------------------------------
(* fund.__init__, konto.__init__ *)

fund(value, time) == [class |-> "fund", value |-> value, date |-> time]

\* The frame sorted by timestamp, rows of one timestamp keeping their order.
RECURSIVE SortByDate(_)
SortByDate(rows) ==
    IF rows = <<>> THEN <<>>
    ELSE LET first == SetMin({Timestamp(rows[i]) : i \in 1..Len(rows)})
         IN  SelectSeq(rows, LAMBDA r : Timestamp(r) = first)
             \o SortByDate(SelectSeq(rows, LAMBDA r : Timestamp(r) # first))

RECURSIVE Concat(_, _)
Concat(members, i) ==
    IF i > Len(members) THEN <<>> ELSE members[i].data \o Concat(members, i + 1)

\* A function object is true of itself, whatever calling it would return.
Truthy(lambda) == TRUE

\* np.all([lambda acc: acc.data_tagged for acc in self.account_list]): the list
\* holds the lambda once per member, never its value on the member.
AllTagged(members) == \A i \in 1..Len(members) : Truthy(members[i])

\* konto(account_list), account_list being positions in objs.  A fund has no data
\* attribute: the concatenation raises on the first fund of the list.
konto(os, account_list) ==
    LET members == [i \in 1..Len(account_list) |-> os[account_list[i]]]
    IN  IF \E i \in 1..Len(members) : members[i].class = "fund"
        THEN [pool |-> <<>>, out |-> Outcome("konto", "AttributeError", <<>>, <<>>)]
        ELSE [pool |-> Cell([class |-> "konto",
                             account_list |-> account_list,
                             data |-> SortByDate(Concat(members, 1)),
                             columns |-> UNION {members[i].columns : i \in 1..Len(members)},
                             data_tagged |-> AllTagged(members),
                             value |-> SumSeq([i \in 1..Len(members) |-> members[i].value])]),
              out |-> Outcome("konto", NoException, <<>>, <<>>)]

-----------------------------------------------------------------------------
(* Inputs. *)

\* The tag lists of the rules a caller or a JSON file supplies.
RuleLists == {<<"y">>}

\* The lines typed at the prompts.
AnswerLists == {<<>>, <<"x">>, <<"y", "x">>}

Dicts(keys, lists) == UNION {[d -> lists] : d \in SUBSET keys}

\* The objects a JSON file of tags can hold: its keys are strings.
JsonDicts == Dicts(Refs, RuleLists)

\* The dictionaries a caller hands to tag as tagging_dict_on_price: a rule for one
\* (reference, amount), with or without the bare reference beside it.
OnPriceDicts ==
    {[k \in {PairKey(r, v)} |-> l] : r \in Refs, v \in Amounts, l \in RuleLists}
    \cup {[k \in {BareKey(r), PairKey(r, v)} |-> l] : r \in Refs, v \in Amounts, l \in RuleLists}

\* The arguments of one call of tag: none, either dictionary, or both.
TagArgs ==
    {<<NoneArg, NoneArg>>}
    \cup {<<DictArg(d), NoneArg>> : d \in JsonDicts}
    \cup {<<NoneArg, DictArg(d)>> : d \in OnPriceDicts}
    \cup {<<DictArg(EmptyDict), DictArg(d)>> : d \in OnPriceDicts}

Windows == {w \in WindowDays \X WindowDays : w[1] <= w[2]}

-----------------------------------------------------------------------------
(* Operations on objs[i]. *)

acc == objs[1]

Constructed(files, windows) ==
    \E file \in files, w \in windows, val_at_open \in OpeningBalances :
        /\ objs = <<account(file, w[1], w[2], val_at_open)>>
        /\ pool = NaN
        /\ last = Outcome("account", NoException, <<>>, <<>>)

Tag(i, args, lists) ==
    \E a \in args, answers \in [1..MaxRows -> lists] :
        LET r == tag(objs[i], a[1], a[2], answers)
        IN  /\ objs' = [objs EXCEPT ![i] = r.acc]
            /\ last' = [r.out EXCEPT !.args = <<a[1].kind, a[2].kind>>]
            /\ UNCHANGED pool

ImportTags(i, jsons) ==
    \E json \in jsons :
        /\ objs' = [objs EXCEPT ![i] = import_tags(@, json)]
        /\ last' = Outcome("import_tags", NoException, <<>>, <<>>)
        /\ UNCHANGED pool

ImportValueTags(i, jsons) ==
    \E json \in jsons :
        /\ objs' = [objs EXCEPT ![i] = import_value_tags(@, json)]
        /\ last' = Outcome("import_value_tags", NoException, <<>>, <<>>)
        /\ UNCHANGED pool

Endow(i, files, windows) ==
    \E file \in files, w \in windows :
        LET r == endow(objs[i], file, w[1], w[2])
        IN  /\ objs' = [objs EXCEPT ![i] = r.acc]
            /\ last' = [r.out EXCEPT !.args = <<w[1], w[2], file>>]
            /\ UNCHANGED pool

Resample(i) ==
    \E frequency \in Frequencies :
        /\ last' = [resample(objs[i], frequency) EXCEPT !.args = <<frequency>>]
        /\ UNCHANGED <<objs, pool>>

TagResample(i, lists) ==
    \E list_of_tags \in lists, frequency \in Frequencies :
        /\ last' = [tagresample(objs[i], list_of_tags, frequency)
                        EXCEPT !.args = <<list_of_tags, frequency, i>>]
        /\ UNCHANGED <<objs, pool>>

-----------------------------------------------------------------------------
(* SpecTag: tagging one account, the rows of its file on one day. *)

TagFiles == {f \in FilesUpTo(MaxRows) : \A i \in 1..Len(f) : f[i].Date = 1}

InitTag == Constructed(TagFiles, {<<1, 3>>})

NextTag ==
    \/ Tag(1, TagArgs, {<<>>, <<"x">>})
    \/ ImportValueTags(1, JsonDicts)

SpecTag == InitTag /\ [][NextTag]_vars

-----------------------------------------------------------------------------
(* Spec: every operation of Account.py on one account whose rows have one      *)
(* reference, the account's window being days 1 to 3.                           *)

OneRefFiles(n) == {f \in FilesUpTo(n) : \A i \in 1..Len(f) : f[i].Reference = "A"}

Init == Constructed(OneRefFiles(MaxRows), {<<1, 3>>})

Next ==
    \/ Tag(1, {<<NoneArg, NoneArg>>}, AnswerLists)
    \/ ImportTags(1, JsonDicts)
    \/ Endow(1, OneRefFiles(MaxNewRows), {<<1, 4>>, <<4, 4>>})
    \/ Resample(1)
    \/ TagResample(1, TagLists)

Spec == Init /\ [][Next]_vars

-----------------------------------------------------------------------------
(* SpecWindow: extending an account of one row, over every window. *)

InitWindow == Constructed(OneRefFiles(1), Windows)

NextWindow == Endow(1, OneRefFiles(1), Windows)

SpecWindow == InitWindow /\ [][NextWindow]_vars

-----------------------------------------------------------------------------
(* SpecPool: two objects, accounts of one row or funds, and a pool of them. *)

MaxMembers == 2

FundValues == {5}

PoolObjects ==
    {account(f, 1, 3, v) : f \in OneRefFiles(1), v \in OpeningBalances}
    \cup {fund(v, 1) : v \in FundValues}

\* The lists of positions in objs a pool is made of.
AccountLists == SeqsUpTo(1..MaxMembers, MaxMembers) \ {<<>>}

Konto ==
    \E account_list \in AccountLists :
        LET r == konto(objs, account_list)
        IN  /\ pool' = r.pool
            /\ last' = [r.out EXCEPT !.args = <<account_list>>]
            /\ UNCHANGED objs

PoolResample ==
    /\ pool # NaN
    /\ \E frequency \in Frequencies :
           last' = [resample(CellValue(pool), frequency)
                       EXCEPT !.op = "konto.resample", !.args = <<frequency>>]
    /\ UNCHANGED <<objs, pool>>

PoolTagResample ==
    /\ pool # NaN
    /\ \E list_of_tags \in AnswerLists, frequency \in Frequencies :
           last' = [tagresample(CellValue(pool), list_of_tags, frequency)
                       EXCEPT !.op = "konto.tagresample",
                              !.args = <<list_of_tags, frequency>>]
    /\ UNCHANGED <<objs, pool>>

TagMember ==
    \E i \in 1..MaxMembers :
        /\ objs[i].class = "account"
        /\ Tag(i, {<<NoneArg, NoneArg>>}, AnswerLists)

TagResampleMember ==
    \E i \in 1..MaxMembers :
        /\ objs[i].class = "account"
        /\ TagResample(i, AnswerLists)

InitPool ==
    /\ objs \in [1..MaxMembers -> PoolObjects]
    /\ pool = NaN
    /\ last = Outcome("account", NoException, <<>>, <<>>)

NextPool ==
    \/ TagMember
    \/ TagResampleMember
    \/ Konto
    \/ PoolResample
    \/ PoolTagResample

SpecPool == InitPool /\ [][NextPool]_vars

-----------------------------------------------------------------------------
(* Tagging: C1, C2. *)

\* Whether a dictionary holds a rule (reference, a) for some amount a.
HasAmountRule(tagdict_on_price, ref) ==
    \E k \in DOMAIN tagdict_on_price : Len(k) = 2 /\ k[1] = ref

PromptsFor(prompts, ref) == SelectSeq(prompts, LAMBDA p : p.Reference = ref)

RowRefs(a) == {a.sort_data[i].Reference : i \in 1..Len(a.sort_data)}

\* C1: after a call of tag, every row whose reference has an amount-qualified rule
\* carries the tag list stored under (reference, amount) in tagdict_on_price, the
\* call has prompted for no such reference on the plain path, and a pair that was
\* not a key has been prompted for once and is a key now.
C1_AmountRuleDecides ==
    last.op = "tag" =>
        \A i \in 1..Len(acc.sort_data) :
            LET row == acc.sort_data[i]
                key == PairKey(row.Reference, row.Value)
            IN  HasAmountRule(acc.tagdict_on_price, row.Reference) =>
                    /\ key \in DOMAIN acc.tagdict_on_price
                    /\ \A j \in 1..Len(last.prompts) :
                           last.prompts[j].Reference = row.Reference
                               => last.prompts[j].path = "on_price"
                    /\ acc.data[i].Tags = Cell(acc.tagdict_on_price[key])

\* C2: a call of tag with the account's own dictionaries prompts once for each
\* reference of the rows that has no amount-qualified rule and is no key of tagdict,
\* and not at all for one that is a key; a call that follows a call of tag prompts
\* for no such reference and leaves the rows' tag lists as they were.
C2_OnePromptThenNone ==
    [][(last'.op = "tag" /\ last'.args = <<"none", "none">>) =>
          \A ref \in RowRefs(acc) :
              ~HasAmountRule(acc.tagdict_on_price, ref) =>
                  /\ Len(PromptsFor(last'.prompts, ref))
                         = IF ref \in DOMAIN acc.tagdict THEN 0 ELSE 1
                  /\ last.op = "tag" =>
                         /\ PromptsFor(last'.prompts, ref) = <<>>
                         /\ \A i \in 1..Len(acc.sort_data) :
                                acc.sort_data[i].Reference = ref
                                    => acc'.data[i].Tags = acc.data[i].Tags]_vars

-----------------------------------------------------------------------------
(* Extension: C4, C5, C6, C9. *)

NewFrom(out) == out.args[1]
NewTo(out) == out.args[2]
NewFile(out) == out.args[3]
Accepted(out) == out.op = "endow" /\ out.exc = NoException

\* C4: endow is accepted exactly when the new window and the account's window have
\* a day in common, and raises otherwise: a window that starts the day after to_date
\* (or ends the day before from_date) is refused like one that leaves a gap.
C4_AcceptedIffDayShared ==
    [][last'.op = "endow" =>
          (last'.exc = NoException
              <=> \E d \in WindowDays : /\ NewFrom(last') <= d /\ d <= NewTo(last')
                                        /\ acc.from_date <= d /\ d <= acc.to_date)]_vars

\* A call of endow whose window starts the day after to_date has raised.
C4_AbuttingRefused ==
    /\ last.op = "endow"
    /\ NewFrom(last) = acc.to_date + 1
    /\ last.exc = "ValueError"

\* C4 as claimed: endow is accepted when the new window overlaps or abuts the
\* account's window, and raises only when the two leave a gap.
C4_AcceptedIffNoGap ==
    [][last'.op = "endow" =>
          (last'.exc = NoException
              <=> ~(NewFrom(last') > acc.to_date + 1 \/ NewTo(last') < acc.from_date - 1))]_vars

\* The records of a frame: timestamp, reference, amount.
Records(data) ==
    [i \in 1..Len(data) |-> <<Timestamp(data[i]), data[i].Reference, data[i].Value>>]

Timestamps(data) == {Timestamp(data[i]) : i \in 1..Len(data)}

\* C5: a successful endow leaves the store holding the records it held followed by
\* the records of the new file whose timestamp the store did not hold, and no other.
C5_OnlyNewTimestampsAppended ==
    [][Accepted(last') =>
          LET file == NewFile(last')
              fresh == SelectSeq([i \in 1..Len(file) |->
                                     <<file[i].Date, file[i].Reference, file[i].Value>>],
                                 LAMBDA r : r[1] \notin Timestamps(acc.data))
          IN  Records(acc'.data) = Records(acc.data) \o fresh]_vars

Min(a, b) == IF a <= b THEN a ELSE b
Max(a, b) == IF a >= b THEN a ELSE b

\* C6: a successful endow widens the account's window to the union of the two.
C6_WindowWidened ==
    [][Accepted(last') =>
          /\ acc'.from_date = Min(acc.from_date, NewFrom(last'))
          /\ acc'.to_date = Max(acc.to_date, NewTo(last'))]_vars

\* C9: value is the opening balance plus the amounts of the records in the store.
C9_ValueIsBalancePlusAmounts ==
    acc.value = acc.val_at_open + ValueSum(acc.data)

-----------------------------------------------------------------------------
(* Tagged aggregation: C3, C7, C8, C10. *)

\* C7: an account flagged as tagged holds a tag list for every record of its store.
C7_TaggedMeansEveryRowTagged ==
    acc.data_tagged => \A i \in 1..Len(acc.data) : acc.data[i].Tags # NaN

RECURSIVE SumOver(_, _)
SumOver(S, data) ==
    IF S = {} THEN 0
    ELSE LET i == CHOOSE x \in S : TRUE
         IN  data[i].Value + SumOver(S \ {i}, data)

\* What the claim says of one answer: a total per emitted bucket, buckets ascending,
\* the total of a bucket being that of the rows in it that match, each matching row
\* in an emitted bucket.
IsAggregate(result, data, matching, frequency) ==
    LET In(b) == {i \in matching : Bucket(frequency, Timestamp(data[i])) = b}
    IN  /\ \A k \in 1..Len(result) : result[k].total = SumOver(In(result[k].bucket), data)
        /\ \A k \in 1..(Len(result) - 1) : result[k].bucket < result[k + 1].bucket
        /\ \A i \in matching :
               \E k \in 1..Len(result) : result[k].bucket = Bucket(frequency, Timestamp(data[i]))

Superset(data, list_of_tags) ==
    {i \in 1..Len(data) : ToSet(list_of_tags) \subseteq ToSet(CellValue(data[i].Tags))}

\* The account a call of tagresample was made on.
Called(out) == objs[out.args[3]]

AggregatesTagged(o, out) ==
    /\ out.exc = NoException
    /\ IsAggregate(out.result, o.data, Superset(o.data, out.args[1]), out.args[2])
    /\ out.args[1] = <<>> => out.result = resample(o, out.args[2]).result

\* C8: on an account or a pool flagged as tagged, tagresample answers with the
\* per-bucket totals of the records whose tags include every required tag, and
\* with the totals of resample when no tag is required.
C8_TagresampleAggregates ==
    /\ (last.op = "tagresample" /\ Called(last).data_tagged)
           => AggregatesTagged(Called(last), last)
    /\ (last.op = "konto.tagresample" /\ CellValue(pool).data_tagged)
           => AggregatesTagged(CellValue(pool), last)

\* The guard of tagresample has raised.
NotTaggedRaised(out) == out.exc = "NameError"

\* C3: tagresample raises at its guard on an account that is not tagged, and on a
\* pool one of whose members is not tagged.
C3_UntaggedSourceRefused ==
    /\ (last.op = "tagresample" /\ ~Called(last).data_tagged) => NotTaggedRaised(last)
    /\ last.op = "konto.tagresample" =>
           LET members == CellValue(pool).account_list
           IN  (\E k \in 1..Len(members) : ~objs[members[k]].data_tagged)
                   => NotTaggedRaised(last)

\* C10: a pool is built from any list of accounts and funds, and the value of a
\* pool is the sum of the values its members have.
C10_PoolValueIsSumOfMembers ==
    /\ last.op = "konto" => last.exc = NoException /\ pool # NaN
    /\ pool # NaN =>
           LET members == CellValue(pool).account_list
           IN  CellValue(pool).value = SumSeq([k \in 1..Len(members) |-> objs[members[k]].value])

-----------------------------------------------------------------------------
(* What holds of the code where the claims above fail. *)

EveryRowTagged(o) ==
    /\ "Tags" \in o.columns
    /\ \A i \in 1..Len(o.data) : o.data[i].Tags # NaN

\* tagresample aggregates as C8 says on a store every row of which holds a tag list.
TaggedStoreAggregates ==
    /\ (last.op = "tagresample" /\ Called(last).data_tagged /\ EveryRowTagged(Called(last)))
           => AggregatesTagged(Called(last), last)
    /\ (last.op = "konto.tagresample" /\ EveryRowTagged(CellValue(pool)))
           => AggregatesTagged(CellValue(pool), last)

\* A call of tag that raises nothing prompts as C2 says.
CompletedPassMemoizes ==
    [][(last'.op = "tag" /\ last'.args = <<"none", "none">> /\ last'.exc = NoException) =>
          \A ref \in RowRefs(acc) :
              ~OnPriceBranch(acc.tagdict_on_price, [Reference |-> ref]) =>
                  /\ Len(PromptsFor(last'.prompts, ref))
                         = IF ref \in DOMAIN acc.tagdict THEN 0 ELSE 1
                  /\ (last.op = "tag" /\ last.exc = NoException) =>
                         /\ last'.prompts = <<>>
                         /\ acc'.data = acc.data]_vars

====
